---- MODULE Spec2Model ----
(***************************************************************************)
(* Acadify / UniReads: the favorites store (Redux slice `favorites`), the  *)
(* useFavorites hook that reads it through a selector snapshot, the        *)
(* redux-persist layer configured in store/store.ts, login and logout,     *)
(* book search, the Details screen and the utility functions of the API    *)
(* service.                                                                *)
(*                                                                         *)
(* Specifications:                                                         *)
(*   Spec        one running session of the store and the hook; every      *)
(*               handler call is recorded in the history variables last,   *)
(*               prev and live, which the store claims are stated over.    *)
(*   PersistSpec launch, rehydration, store dispatches, storage writes     *)
(*               (succeeding or failing) and process restarts.             *)
(*   AuthSpec    login, the auth check of the root layout and logout, on   *)
(*               top of the persistence of the favorites.                  *)
(*   SearchSpec  useFetchBooks, SearchScreen.fetchBooks and searchBooks,   *)
(*               their requests settling in any order.                     *)
(*   DetailsSpec fetchBookDetails: work, author fan-out, editions; and the *)
(*               single-record service functions.                          *)
(*   UtilSpec    getCoverImageUrl, formatDescription, the inline           *)
(*               description of the Details screen and the badge of a      *)
(*               book card, on drawn arguments.                            *)
(*   SerialSpec  a burst of actions dispatched to the store, with the log  *)
(*               of what was dispatched.                                   *)
(***************************************************************************)
EXTENDS Integers, Sequences, FiniteSets, TLC

VARIABLES
    items,          \* state.favorites.items: the canonical collection
    favorites,      \* useFavorites: the selector value captured at the last render
    stale,          \* handler calls made since the last render
    phase,          \* "loading" until REHYDRATE is dispatched, then "running"
    storage,        \* AsyncStorage entry "persist:root" (Absent or a token text)
    keysToProcess,  \* createPersistoid: slice keys waiting to be written
    lastWrite,      \* outcome of the latest storage.setItem: "none", "ok", "failed"
    loadResult,     \* outcome of getStoredState in this launch
    last,           \* history: the latest handler call
    prev,           \* history: the call before it, kept when same handler and key
    live,           \* history: keys dispatched to addFavorite and not removed since
    storedFrom,     \* history: the collection the storage entry was written from
    token,          \* AsyncStorage entry "unireads_token" (NoToken or a token)
    user,           \* state.user.user
    route,          \* the screen group the router shows
    loginPc,        \* Login.handleSubmit: "idle", "fetch" or "setItem"
    logoutPc,       \* Profile.handleLogout: "idle", "alert" or "removeItem"
    fieldError,     \* Login: the error shown under the form
    submitting,     \* Login: the flag handleSubmit drives through setSubmitting
    authCheck,      \* RootLayoutNav effect: "pending", "done", or "failed" when
                    \* the token could not be read
    logoutState,    \* history: "cleared" after a logout, "persisted" after the
                    \* write that follows it, "none" after a login or an add
    hook,           \* useFetchBooks: books, loading, error, lastQuery, lastLimit
    screen,         \* SearchScreen: books, loading, refreshing, error
    api,            \* the promise of the latest searchBooks call
    inflight,       \* the search requests sent and not yet settled
    sent,           \* the number of search requests sent
    event,          \* history: the search call or the settlement made by the last step
    latest,         \* history: the id of the request each caller sent last
    closure,        \* useFetchBooks: lastQuery and lastLimit as the refresh callback
                    \* of the last render captured them
    details,        \* Details: bookDetails, loading, error, pageCount, language,
                    \* rating, reviewCount
    detailsPc,      \* fetchBookDetails: "idle", "work", "authors", "editions", "done"
    workId,         \* Details: the route parameter
    data,           \* fetchBookDetails: the local `data`
    authorCalls,    \* fetchBookDetails: authorPromises with what each settled with
    requested,      \* the URLs fetchBookDetails has requested
    workReply,      \* history: what the work request settled with
    editionsReply,  \* history: what the editions request settled with
    apiCall,        \* the promise of the latest getBookDetails, getAuthorDetails
                    \* or getBookEditions call
    coverArg,       \* the coverId a cover URL is asked for
    sizeArg,        \* the size a cover URL is asked for
    coverUrl,       \* the value getCoverImageUrl returned for them
    descArg,        \* the description to be normalized
    formatted,      \* the value formatDescription returned for it
    inlined,        \* the description the Details screen renders for it
    cardBook,       \* BookCard: edition_count and first_publish_year of its book
    clock,          \* the year new Date().getFullYear() returns
    status,         \* the badge getBookStatus returned for them
    log,            \* history: the actions dispatched to the store, in order
    shown,          \* Home: favoritesWithSubjects, the "My books" list
    batches,        \* Home: the fetchFavoriteSubjects calls waiting on Promise.all
    started         \* Home: the number of such calls that sent requests

authVars == <<token, user, route, loginPc, logoutPc, fieldError, authCheck,
              logoutState, submitting>>

searchVars == <<hook, screen, api, inflight, sent, event, latest, closure>>

\* the state of the screens outside the favorites store and its persistence
detailsVars == <<details, detailsPc, workId, data, authorCalls, requested, workReply,
                 editionsReply, apiCall>>

cardVars == <<cardBook, clock, status>>

utilVars == <<coverArg, sizeArg, coverUrl, descArg, formatted, inlined, cardVars>>

serialVars == <<log>>

homeVars == <<shown, batches, started>>

screenVars == <<authVars, searchVars, detailsVars, utilVars,
    serialVars,
    homeVars>>

outsideAuth == <<searchVars, detailsVars, utilVars,
    serialVars,
    homeVars>>

vars == <<items, favorites, stale, phase, storage, keysToProcess, lastWrite,
          loadResult, last, prev, live, storedFrom, screenVars>>

----------------------------------------------------------------------------
(* Bounds and sample data *)

\* number of distinct work keys in the store specification
NumKeys == 3
\* number of distinct work keys in the persistence specification
NumPersistKeys == 3
\* handler calls the hook's caller may make on one render's closures
MaxStale == 2
\* number of distinct work keys in the Home specification
NumHomeKeys == 4
\* fetchFavoriteSubjects calls that send requests in one run
MaxBatches == 4
\* actions dispatched in one burst
MaxDispatches == 3
\* number of distinct work keys in the login/logout specification
NumAuthKeys == 1
\* search requests sent in one run
MaxRequests == 2
\* author references in one work record
MaxAuthors == 2
\* the largest cover id a cover URL is asked for
MaxCoverId == 3
\* fetchBooks(query, limit = 20)
DefaultLimit == 20

Undefined == "undefined"

WorkKey(n) == "/works/OL" \o ToString(n) \o "W"

\* One record per key.
SampleBooks(n) ==
    { [key |-> WorkKey(i), title |-> "Alpha", cover_i |-> Undefined] : i \in 1..n }

\* A second record under the first key, with another title and the optional
\* cover_i set, for calls that pass different content under the same key.
Revised == [key |-> WorkKey(1), title |-> "Beta", cover_i |-> "240727"]

Books == SampleBooks(NumKeys) \cup {Revised}
Keys == { WorkKey(i) : i \in 1..NumKeys }
PersistBooks == SampleBooks(NumPersistKeys) \cup {Revised}
PersistKeys == { WorkKey(i) : i \in 1..NumPersistKeys }

----------------------------------------------------------------------------
(* favoritesSlice reducers *)

\* mutant: the slice starts with a seeded entry instead of empty
initialStateSeeded == <<Revised>>

initialState == << >>

\* state.items.find((b) => b.key === key) is defined
find(its, key) == \E i \in 1..Len(its) : its[i].key = key

\* mutant: the duplicate check is missing
addFavoriteNoCheck(its, payload) == Append(its, payload)

\* mutant: an existing entry is overwritten by the new record
addFavoriteOverwrite(its, payload) ==
    IF find(its, payload.key)
    THEN [i \in 1..Len(its) |-> IF its[i].key = payload.key THEN payload ELSE its[i]]
    ELSE Append(its, payload)

\* mutant: unshift instead of push
addFavoriteUnshift(its, payload) ==
    IF find(its, payload.key) THEN its ELSE <<payload>> \o its

addFavorite(its, payload) ==
    IF find(its, payload.key) THEN its ELSE Append(its, payload)

\* mutant: splice(findIndex(...), 1), which drops the last entry when the key is absent
removeFavoriteSplice(its, key) ==
    IF find(its, key) THEN SelectSeq(its, LAMBDA b : b.key # key)
    ELSE IF its = << >> THEN its ELSE SubSeq(its, 1, Len(its) - 1)

\* mutant: the filtered array is not assigned back to state.items
removeFavoriteUnassigned(its, key) == its

removeFavorite(its, key) == SelectSeq(its, LAMBDA b : b.key # key)

\* mutant: clearFavorites leaves the collection as it is
clearFavoritesKept(its) == its

clearFavorites(its) == << >>

----------------------------------------------------------------------------
(* The store: persistedReducer = persistReducer(persistConfig, rootReducer) *)

Absent == << >>

\* rootReducer on the favorites slice
rootReducer(its, type, payload) ==
    CASE type = "favorites/addFavorite"    -> addFavorite(its, payload)
      [] type = "favorites/removeFavorite" -> removeFavorite(its, payload)
      [] type = "favorites/clearFavorites" -> clearFavorites(its)

\* Whether the reducer returns a new state.favorites object.  addFavorite on an
\* existing key touches nothing; removeFavorite and clearFavorites always assign
\* state.items, so a new object is produced even when the content is the same.
replaced(its, type, payload) ==
    IF type = "favorites/addFavorite" THEN ~find(its, payload.key) ELSE TRUE

\* mutant: conditionalUpdate never reaches the persistoid
updateNever(queue, its, type, payload) == queue

\* createPersistoid.update, called from conditionalUpdate: a whitelisted key whose
\* slice object changed is queued for writing.
update(queue, its, type, payload) ==
    IF replaced(its, type, payload) THEN queue \cup {"favorites"} ELSE queue

\* mutant: the reducer runs on the collection of the last render, so the
\* actions dispatched since then are lost
dispatchOnSnapshot(type, payload) ==
    /\ items' = rootReducer(favorites, type, payload)
    /\ keysToProcess' = update(keysToProcess, items, type, payload)

\* store.dispatch(action) through persistedReducer, once rehydrated
dispatch(type, payload) ==
    /\ items' = rootReducer(items, type, payload)
    /\ keysToProcess' = update(keysToProcess, items, type, payload)

----------------------------------------------------------------------------
(* useFavorites *)

\* favorites.some((book) => book.key === bookKey)
isFavorite(favs, bookKey) == \E i \in 1..Len(favs) : favs[i].key = bookKey

favoritesCount == Len(favorites)

addToFavorites(book) ==
    IF isFavorite(favorites, book.key)
    THEN UNCHANGED <<items, keysToProcess>>
    ELSE dispatch("favorites/addFavorite", book)

removeFromFavorites(bookKey) == dispatch("favorites/removeFavorite", bookKey)

\* mutant: the membership test is inverted
toggleFavoriteInverted(book) ==
    IF ~isFavorite(favorites, book.key)
    THEN removeFromFavorites(book.key)
    ELSE addToFavorites(book)

toggleFavorite(book) ==
    IF isFavorite(favorites, book.key)
    THEN removeFromFavorites(book.key)
    ELSE addToFavorites(book)

----------------------------------------------------------------------------
(* History variables of the store specification *)

NoBook == [key |-> "", title |-> "", cover_i |-> Undefined]

NoCall == [op |-> "none", key |-> "", book |-> NoBook, pre |-> << >>, fresh |-> TRUE]

\* the call being made, with the collection it starts from and whether
\* the hook's snapshot was that collection
Call(op, key, book) ==
    [op |-> op, key |-> key, book |-> book, pre |-> items,
     fresh |-> favorites = items]

Record(op, key, book) ==
    /\ last' = Call(op, key, book)
    /\ prev' = IF last.op = op /\ last.key = key THEN last ELSE NoCall

KeySet(its) == { its[i].key : i \in 1..Len(its) }

\* keys sent to the addFavorite reducer and not sent to removeFavorite or cleared since
Track(type, key, dispatched) ==
    live' = IF ~dispatched THEN live
            ELSE CASE type = "favorites/addFavorite"    -> live \cup {key}
                   [] type = "favorites/removeFavorite" -> live \ {key}
                   [] type = "favorites/clearFavorites" -> {}

----------------------------------------------------------------------------
(* The user slice, the token entry and the router *)

Null == "null"

\* AsyncStorage.getItem('unireads_token') when nothing is stored
NoToken == Null

\* the token and the user of the login response
Token == "eyJhbGciOi"
LoggedUser == [id |-> "1", username |-> "kminchelle", token |-> Token]

LoginRoute == "auth/Login"
TabsRoute == "(tabs)"

\* state.user.user is null: no record
NoUser == << >>

userInitialState == NoUser

setUser(u, payload) == payload

clearUser(u) == NoUser

\* the application opens on "/" with nothing stored and nobody logged in
AuthInit ==
    /\ token = NoToken
    /\ user = userInitialState
    /\ route = TabsRoute
    /\ loginPc = "idle"
    /\ logoutPc = "idle"
    /\ fieldError = ""
    /\ submitting = FALSE
    /\ authCheck = "pending"
    /\ logoutState = "none"

----------------------------------------------------------------------------
(* Search: the data of useFetchBooks, SearchScreen and searchBooks *)

\* a text is the sequence of its characters
Queries == {<< >>, <<" ", " ">>, <<"a", " ", "b">>}

Limits == {DefaultLimit, 5}

RECURSIVE trimStart(_)
trimStart(text) ==
    IF text = << >> THEN text
    ELSE IF Head(text) = " " THEN trimStart(Tail(text)) ELSE text

RECURSIVE trimEnd(_)
trimEnd(text) ==
    IF text = << >> THEN text
    ELSE IF text[Len(text)] = " " THEN trimEnd(SubSeq(text, 1, Len(text) - 1))
    ELSE text

\* String.prototype.trim
trim(text) == trimEnd(trimStart(text))

\* encodeURIComponent on the characters used here
encodeURIComponent(text) ==
    [i \in 1..Len(text) |-> IF text[i] = " " THEN "%20" ELSE text[i]]

\* URLSearchParams.toString on the characters used here
formEncode(text) ==
    [i \in 1..Len(text) |-> IF text[i] = " " THEN "+" ELSE text[i]]

\* the URL of useFetchBooks.fetchBooks and of SearchScreen.fetchBooks
searchUrl(query, limit) ==
    <<"https://openlibrary.org/search.json?q=">> \o encodeURIComponent(query)
    \o <<"&limit=", ToString(limit)>>

\* the URL of searchBooks({query, limit}): falsy parameters are left out
searchBooksUrl(query, limit) ==
    <<"https://openlibrary.org/search.json?">>
    \o (IF query # << >> THEN <<"q=">> \o formEncode(query) ELSE << >>)
    \o (IF limit # 0 THEN <<(IF query # << >> THEN "&" ELSE "") \o "limit=",
                             ToString(limit)>>
        ELSE << >>)

\* items of the remote `docs` list; `language` is a field Book does not have
DocAlpha ==
    [key |-> WorkKey(1), title |-> "Alpha", author_name |-> <<"Ann">>,
     cover_i |-> "240727", first_publish_year |-> "1965",
     edition_count |-> "3", language |-> <<"eng">>]

DocBeta ==
    [key |-> WorkKey(2), title |-> "Beta", author_name |-> << >>,
     cover_i |-> Undefined, first_publish_year |-> Undefined,
     edition_count |-> "1", language |-> <<"fre">>]

\* `docs` lists of sample responses: empty, out of title order, with a repeat
DocLists == {<< >>, <<DocBeta, DocAlpha>>, <<DocAlpha, DocAlpha>>}

\* response bodies: {docs: [...]} and an object without docs
Bodies ==
    {[defined |-> TRUE, docs |-> l] : l \in DocLists}
    \cup {[defined |-> FALSE, docs |-> << >>]}

Statuses == {200, 404, 500}

NoReply == [kind |-> "none", status |-> 0, body |-> [defined |-> FALSE, docs |-> << >>]]

\* what fetch settles with: a rejection, a non-2xx response, or a 2xx response
\* with a body
Replies ==
    {[kind |-> "rejected", status |-> 0, body |-> NoReply.body]}
    \cup {[kind |-> "response", status |-> st, body |-> NoReply.body] :
              st \in {x \in Statuses : x \notin 200..299}}
    \cup {[kind |-> "response", status |-> st, body |-> b] :
              st \in {x \in Statuses : x \in 200..299}, b \in Bodies}

\* response.ok of a settled fetch that did not reject
ok(reply) == reply.kind = "response" /\ reply.status \in 200..299

\* data.docs || []
docsOf(reply) == IF reply.body.defined THEN reply.body.docs ELSE << >>

\* mutant: the mapped list is sorted by title
toBooksSorted(docs) ==
    LET mapped == [i \in 1..Len(docs) |->
                     [key |-> docs[i].key, title |-> docs[i].title,
                      author_name |-> docs[i].author_name,
                      cover_i |-> docs[i].cover_i,
                      first_publish_year |-> docs[i].first_publish_year,
                      edition_count |-> docs[i].edition_count]]
        first == SelectSeq(mapped, LAMBDA b : b.title = "Alpha")
        rest == SelectSeq(mapped, LAMBDA b : b.title # "Alpha")
    IN  first \o rest

\* (data.docs || []).map(doc => ({key, title, author_name, cover_i,
\* first_publish_year, edition_count}))
toBooks(docs) ==
    [i \in 1..Len(docs) |->
        [key |-> docs[i].key, title |-> docs[i].title,
         author_name |-> docs[i].author_name, cover_i |-> docs[i].cover_i,
         first_publish_year |-> docs[i].first_publish_year,
         edition_count |-> docs[i].edition_count]]

\* the message of the error the catch block receives
hookError(reply) ==
    IF reply.kind = "rejected" THEN "Network request failed"
    ELSE "HTTP error! status: " \o ToString(reply.status)

\* searchBooks: the error it rethrows
searchBooksError(reply) ==
    IF reply.kind = "rejected" THEN "Network request failed"
    ELSE "Failed to search books"

NoEvent == [kind |-> "none", caller |-> "", query |-> << >>, reply |-> NoReply]

SearchInit ==
    /\ hook = [books |-> << >>, loading |-> FALSE, error |-> Null,
               lastQuery |-> << >>, lastLimit |-> DefaultLimit]
    /\ screen = [books |-> << >>, loading |-> FALSE, refreshing |-> FALSE,
                 error |-> Null]
    /\ api = [state |-> "none", value |-> << >>, error |-> Null]
    /\ inflight = {}
    /\ sent = 0
    /\ latest = [c \in {"hook", "screen", "api"} |-> 0]
    /\ event = NoEvent
    /\ closure = [lastQuery |-> << >>, lastLimit |-> DefaultLimit]

----------------------------------------------------------------------------
(* Details: the data of fetchBookDetails and of the service functions *)

WorkIds == {"", "OL45804W"}

AuthorKeys == {"/authors/OL1A", "/authors/OL2A"}

\* the `name` of the author record behind a key
AuthorName(key) == IF key = "/authors/OL1A" THEN "Frank Herbert" ELSE "Ursula Le Guin"

\* data.authors: lists of {author: {key}} of up to n references
RECURSIVE AuthorRefLists(_)
AuthorRefLists(n) ==
    IF n = 0 THEN {<< >>}
    ELSE AuthorRefLists(n - 1)
         \cup {Append(l, [author |-> [key |-> k]]) :
                  l \in {m \in AuthorRefLists(n - 1) : Len(m) = n - 1},
                  k \in AuthorKeys}

\* the local `data` before the work response is parsed
NoData == [key |-> "", title |-> "", authors |-> << >>, author_name |-> << >>]

\* a work record; author_name is << >> as long as it is not assigned
Work(id, refs) ==
    [key |-> "/works/" \o id, title |-> "Dune", authors |-> refs,
     author_name |-> << >>]

\* the `key` of the record the work request may return for a work id: the key
\* of that id, or the key of another work
ResponseKeys(id) == {"/works/" \o id, WorkKey(1)}

NoAnswer == [kind |-> "none", status |-> 0, json |-> FALSE]

\* what a fetch settles with, before the body is looked at: a rejection, or a
\* response with a status whose body is JSON or is not
Answers ==
    { [kind |-> "rejected", status |-> 0, json |-> FALSE],
      [kind |-> "response", status |-> 404, json |-> TRUE],
      [kind |-> "response", status |-> 500, json |-> FALSE],
      [kind |-> "response", status |-> 200, json |-> TRUE] }

\* mutant: every response counts as ok
answerOkAlways(answer) == answer.kind = "response"

\* response.ok
answerOk(answer) == answer.kind = "response" /\ answer.status \in 200..299

\* authorData.name of a parsed body: an error body has no name property
nameOf(answer, key) == IF answerOk(answer) THEN AuthorName(key) ELSE Undefined

\* the callback of data.authors.map: fetch, json(), return authorData.name;
\* catch returns 'Unknown Author'.  fetch throws when rejected, json() throws
\* when the body is not JSON.
authorLookup(answer, key) ==
    IF answer.kind = "rejected" \/ ~answer.json THEN "Unknown Author"
    ELSE nameOf(answer, key)

LangEng == <<"/languages/", "eng">>
LangFre == <<"/languages/", "fre">>

\* String.prototype.toUpperCase on the codes used here
toUpperCase(code) ==
    CASE code = "fre" -> "FRE"
      [] code = "eng" -> "ENG"
      [] OTHER -> code

\* langKey.includes('eng') ? 'ENG' : langKey.replace('/languages/', '').toUpperCase()
languageOf(langKey) ==
    IF \E i \in 1..Len(langKey) : langKey[i] = "eng" THEN "ENG"
    ELSE toUpperCase(SelectSeq(langKey, LAMBDA part : part # "/languages/")[1])

\* editionsData.entries of sample responses; a missing property is Undefined
\* (number_of_pages) or << >> (languages)
EntryLists ==
    { << >>,
      <<[number_of_pages |-> Undefined, languages |-> << >>],
        [number_of_pages |-> "320", languages |-> <<LangFre>>]>>,
      <<[number_of_pages |-> "412", languages |-> <<LangEng>>]>> }

\* the entries of a parsed editions body: an error body has none
Editions == {[answer |-> a, entries |-> << >>] : a \in {x \in Answers : ~answerOk(x)}}
            \cup {[answer |-> a, entries |-> e] :
                     a \in {x \in Answers : answerOk(x)}, e \in EntryLists}

NoEditions == [answer |-> NoAnswer, entries |-> << >>]

\* entries.find(e => e.number_of_pages): the page count set, or the one kept
pagesAfter(entries, pageCount) ==
    LET withPages == SelectSeq(entries, LAMBDA e : e.number_of_pages # Undefined)
    IN  IF withPages = << >> THEN pageCount ELSE withPages[1].number_of_pages

\* entries.find(e => e.languages && e.languages.length > 0): the language set,
\* or the one kept
languageAfter(entries, language) ==
    LET withLang == SelectSeq(entries, LAMBDA e : e.languages # << >>)
    IN  IF withLang = << >> THEN language ELSE languageOf(withLang[1].languages[1])

\* 3.5 + Math.random() * 1.5 and Math.floor(10 + Math.random() * 200)
MockRatings == {[rating |-> "3.5", reviewCount |-> "10"],
                [rating |-> "4.9", reviewCount |-> "209"]}

\* the useState initial values; bookDetails is << >> for null, else <<record>>
detailsInitialState ==
    [bookDetails |-> << >>, loading |-> TRUE, error |-> Null, pageCount |-> Null,
     language |-> "ENG", rating |-> "4.2", reviewCount |-> "45"]

ServiceFunctions == {"getBookDetails", "getAuthorDetails", "getBookEditions"}

\* the message of the Error a service function throws on a non-2xx response
serviceError(fn) ==
    CASE fn = "getBookDetails" -> "Failed to fetch book details"
      [] fn = "getAuthorDetails" -> "Failed to fetch author details"
      [] OTHER -> "Failed to fetch book editions"

DetailsInit ==
    /\ details = detailsInitialState
    /\ detailsPc = "idle"
    /\ workId = ""
    /\ data = NoData
    /\ authorCalls = << >>
    /\ requested = {}
    /\ workReply = NoAnswer
    /\ editionsReply = NoEditions
    /\ apiCall = [fn |-> "none", state |-> "none", error |-> Null]

----------------------------------------------------------------------------
(* Utility functions of the API service, and the inline normalization of     *)
(* the Details screen                                                        *)

COVERS_BASE_URL == "https://covers.openlibrary.org"
PLACEHOLDER_IMAGE == "https://via.placeholder.com"

\* a coverId argument: left out (undefined), or a number
NoCover == [given |-> FALSE, id |-> 0]
CoverIds == {NoCover} \cup {[given |-> TRUE, id |-> n] : n \in 0..MaxCoverId}

\* a size argument: left out, or one of the three sizes
SizeArgs == {Undefined, "S", "M", "L"}

\* mutant: the size argument is ignored
getCoverImageUrlMedium(coverId, size) ==
    IF ~coverId.given \/ coverId.id = 0 THEN PLACEHOLDER_IMAGE \o "/120x180"
    ELSE COVERS_BASE_URL \o "/b/id/" \o ToString(coverId.id) \o "-M.jpg"

\* getCoverImageUrl(coverId, size = 'M')
getCoverImageUrl(coverId, size) ==
    LET sz == IF size = Undefined THEN "M" ELSE size
    IN  IF ~coverId.given \/ coverId.id = 0 THEN PLACEHOLDER_IMAGE \o "/120x180"
        ELSE COVERS_BASE_URL \o "/b/id/" \o ToString(coverId.id) \o "-" \o sz
             \o ".jpg"

Texts == {"", "A desert planet.", "No description available"}

\* a description: undefined, a string, or an object {value: string}
NoDescription == [type |-> "undefined", value |-> ""]
Descriptions ==
    {NoDescription}
    \cup {[type |-> "string", value |-> t] : t \in Texts}
    \cup {[type |-> "object", value |-> t] : t \in Texts}

\* mutant: the value of a wrapper is returned as it is
formatDescriptionRaw(description) ==
    IF description.type = "undefined" THEN "No description available"
    ELSE description.value

\* formatDescription: `!description` holds for undefined and for ''
formatDescription(description) ==
    IF description.type = "undefined"
       \/ (description.type = "string" /\ description.value = "")
    THEN "No description available"
    ELSE IF description.type = "string" THEN description.value
    ELSE IF description.value # "" THEN description.value
    ELSE "No description available"

\* Details: typeof description === 'string' ? description
\*          : description?.value || 'No description available.'
inlineDescription(description) ==
    IF description.type = "string" THEN description.value
    ELSE IF description.type = "object" /\ description.value # ""
    THEN description.value
    ELSE "No description available."

\* an optional number of a book: left out, or a number
NoNumber == [given |-> FALSE, n |-> 0]
Number(n) == [given |-> TRUE, n |-> n]

\* the edition count over which a book is popular
PopularOver == 50
\* the number of years a book stays new
NewYears == 2

\* the years the clock may show, and the books a card is drawn for
ClockYears == {2026, 2027}
EditionCounts == {NoNumber, Number(0), Number(PopularOver), Number(PopularOver + 1)}
PublishYears == {NoNumber, Number(0), Number(2023), Number(2024), Number(2025)}
CardBooks ==
    {[edition_count |-> e, first_publish_year |-> y] :
        e \in EditionCounts, y \in PublishYears}

\* `x && ...` on an optional number: undefined and 0 are falsy
truthy(x) == x.given /\ x.n # 0

\* mutant: the recency rule is tried first
getBookStatusRecencyFirst(book, currentYear) ==
    IF truthy(book.first_publish_year)
       /\ book.first_publish_year.n >= currentYear - NewYears
    THEN "New"
    ELSE IF truthy(book.edition_count) /\ book.edition_count.n > PopularOver
    THEN "Popular"
    ELSE "Trending"

\* getBookStatus(book), with currentYear = new Date().getFullYear()
getBookStatus(book, currentYear) ==
    IF truthy(book.edition_count) /\ book.edition_count.n > PopularOver
    THEN "Popular"
    ELSE IF truthy(book.first_publish_year)
            /\ book.first_publish_year.n >= currentYear - NewYears
    THEN "New"
    ELSE "Trending"

\* nothing has been asked of the utility functions
UtilInit ==
    /\ coverArg = NoCover
    /\ sizeArg = Undefined
    /\ coverUrl = Null
    /\ descArg = NoDescription
    /\ formatted = Null
    /\ inlined = Null
    /\ cardBook = [edition_count |-> NoNumber, first_publish_year |-> NoNumber]
    /\ clock = 2026
    /\ status = Null

\* nothing has been dispatched
SerialInit == log = << >>

\* Home is mounted on an empty collection: the effect returns at once
HomeInit ==
    /\ shown = << >>
    /\ batches = {}
    /\ started = 0

ScreensInit ==
    /\ AuthInit
    /\ SearchInit
    /\ DetailsInit
    /\ UtilInit
    /\ SerialInit
    /\ HomeInit

----------------------------------------------------------------------------
(* Spec: one session of the store and the hook *)

CanCall == phase = "running" /\ stale < MaxStale

Called ==
    /\ stale' = stale + 1
    /\ UNCHANGED <<favorites, phase, storage, lastWrite, loadResult, storedFrom>>
    /\ UNCHANGED screenVars

\* explore.tsx handleFavoritePress: dispatch(addFavorite(book))
HandleFavoritePress(book) ==
    /\ CanCall
    /\ dispatch("favorites/addFavorite", book)
    /\ Record("addFavorite", book.key, book)
    /\ Track("favorites/addFavorite", book.key, TRUE)
    /\ Called

AddToFavorites(book) ==
    /\ CanCall
    /\ addToFavorites(book)
    /\ Record("addToFavorites", book.key, book)
    /\ Track("favorites/addFavorite", book.key, ~isFavorite(favorites, book.key))
    /\ Called

RemoveFromFavorites(bookKey) ==
    /\ CanCall
    /\ removeFromFavorites(bookKey)
    /\ Record("removeFavorite", bookKey, NoBook)
    /\ Track("favorites/removeFavorite", bookKey, TRUE)
    /\ Called

ToggleFavorite(book) ==
    /\ CanCall
    /\ toggleFavorite(book)
    /\ Record("toggleFavorite", book.key, book)
    /\ Track(IF isFavorite(favorites, book.key) THEN "favorites/removeFavorite"
                                                ELSE "favorites/addFavorite",
             book.key, TRUE)
    /\ Called

\* dispatch(clearFavorites())
ClearFavorites ==
    /\ CanCall
    /\ dispatch("favorites/clearFavorites", "")
    /\ Record("clearFavorites", "", NoBook)
    /\ Track("favorites/clearFavorites", "", TRUE)
    /\ Called

\* the component re-renders: useAppSelector returns the current state.favorites.items
Render ==
    /\ phase = "running"
    /\ stale > 0
    /\ favorites' = items
    /\ stale' = 0
    /\ UNCHANGED <<items, phase, storage, keysToProcess, lastWrite, loadResult,
                   last, prev, live, storedFrom>>
    /\ UNCHANGED screenVars

\* first launch, after PersistGate has opened on an absent storage entry
StoreInit ==
    /\ items = initialState
    /\ favorites = initialState
    /\ stale = 0
    /\ phase = "running"
    /\ storage = Absent
    /\ keysToProcess = {"favorites", "_persist"}
    /\ lastWrite = "none"
    /\ loadResult = "absent"
    /\ last = NoCall
    /\ prev = NoCall
    /\ live = {}
    /\ storedFrom = << >>

Init ==
    /\ StoreInit
    /\ ScreensInit

Next ==
    \/ \E book \in Books : HandleFavoritePress(book)
    \/ \E book \in Books : AddToFavorites(book)
    \/ \E bookKey \in Keys : RemoveFromFavorites(bookKey)
    \/ \E book \in Books : ToggleFavorite(book)
    \/ ClearFavorites
    \/ Render

Spec == Init /\ [][Next]_vars

----------------------------------------------------------------------------
(* SerialSpec: a burst of actions dispatched by the screens before any render *)

outsideSerial == <<authVars, searchVars, detailsVars, utilVars, homeVars>>

\* one store.dispatch call: the reducer runs to completion inside the call
Dispatch(type, payload, key) ==
    /\ phase = "running"
    /\ Len(log) < MaxDispatches
    /\ dispatch(type, payload)
    /\ log' = Append(log, [type |-> type, key |-> key,
                           book |-> IF type = "favorites/addFavorite"
                                    THEN payload ELSE NoBook])
    /\ UNCHANGED <<favorites, stale, phase, storage, lastWrite, loadResult, last,
                   prev, live, storedFrom>>
    /\ UNCHANGED outsideSerial

DispatchAddFavorite(book) == Dispatch("favorites/addFavorite", book, book.key)
DispatchRemoveFavorite(bookKey) == Dispatch("favorites/removeFavorite", bookKey, bookKey)
DispatchClearFavorites == Dispatch("favorites/clearFavorites", "", "")

SerialNext ==
    \/ \E book \in Books : DispatchAddFavorite(book)
    \/ \E bookKey \in Keys : DispatchRemoveFavorite(bookKey)
    \/ DispatchClearFavorites

SerialSpec == Init /\ [][SerialNext]_vars

----------------------------------------------------------------------------
(* redux-persist with persistConfig = {key: 'root', storage: AsyncStorage,       *)
(* whitelist: ['favorites']}: default serialize/deserialize (JSON), default      *)
(* state reconciler (autoMergeLevel1), default timeout, no writeFailHandler.     *)
(* A JSON text is modelled as its sequence of tokens.                            *)

\* JSON.stringify of a Book: a property whose value is undefined is left out
stringifyBook(b) ==
    <<"{", "key", b.key, "title", b.title>>
    \o (IF b.cover_i = Undefined THEN << >> ELSE <<"cover_i", b.cover_i>>)
    \o <<"}">>

RECURSIVE stringifyBooks(_)
stringifyBooks(its) ==
    IF its = << >> THEN << >>
    ELSE stringifyBook(Head(its)) \o stringifyBooks(Tail(its))

\* serialize(state.favorites) = JSON.stringify({items: [...]})
stringifySlice(its) ==
    <<"{", "items", "[">> \o stringifyBooks(its) \o <<"]", "}">>

\* writeStagedState: serialize({favorites: <string>, _persist: <string>}); `user`
\* is not whitelisted and is not written.
serialize(its) ==
    <<"{", "favorites", "\"">> \o stringifySlice(its) \o <<"\"">>
    \o <<"_persist", "\"", "{", "version", "-1", "rehydrated", "true", "}", "\"", "}">>

\* JSON.parse of the array of books that starts at token i
RECURSIVE parseBooks(_, _)
parseBooks(text, i) ==
    IF text[i] = "]" THEN << >>
    ELSE LET hasCover == text[i + 5] = "cover_i"
             book == [key     |-> text[i + 2],
                      title   |-> text[i + 4],
                      cover_i |-> IF hasCover THEN text[i + 6] ELSE Undefined]
         IN  <<book>> \o parseBooks(text, IF hasCover THEN i + 8 ELSE i + 6)

\* mutant: the parsed array comes back in reverse order
RECURSIVE parseBooksReversed(_, _)
parseBooksReversed(text, i) ==
    IF text[i] = "]" THEN << >>
    ELSE LET hasCover == text[i + 5] = "cover_i"
             book == [key     |-> text[i + 2],
                      title   |-> text[i + 4],
                      cover_i |-> IF hasCover THEN text[i + 6] ELSE Undefined]
         IN  parseBooksReversed(text, IF hasCover THEN i + 8 ELSE i + 6) \o <<book>>

\* mutant of deserialize
deserializeReversed(text) == parseBooksReversed(text, 7)

\* deserialize of the stored text, then of its `favorites` string: state.items
deserialize(text) == parseBooks(text, 7)

\* getStoredState: undefined when the entry is absent, else the parsed state
getStoredState(entry) ==
    IF entry = Absent
    THEN [defined |-> FALSE, items |-> << >>]
    ELSE [defined |-> TRUE, items |-> deserialize(entry)]

\* the REHYDRATE payload for the outcome of storage.getItem: a rejected read and
\* the persist timeout both rehydrate with an undefined payload and an error
rehydratePayload(outcome, entry) ==
    IF outcome = "resolved" THEN getStoredState(entry)
    ELSE [defined |-> FALSE, items |-> << >>]

\* autoMergeLevel1 on the favorites slice: an undefined payload keeps the reduced
\* state, otherwise the inbound slice replaces it
autoMergeLevel1(inbound, reducedItems) ==
    IF inbound.defined THEN inbound.items ELSE reducedItems

\* mutant: a failed write restores the collection that is in storage
onWriteFailRollback(its, entry) == getStoredState(entry).items

\* onWriteFail with no writeFailHandler configured: the error is logged and the
\* in-memory state stays as it is
onWriteFail(its, entry) == its

----------------------------------------------------------------------------
(* PersistSpec: launches, rehydration, dispatches, storage writes *)

storeVars == <<favorites, stale, last, prev, live>>

LoadOutcomes == {"resolved", "rejected", "timeout"}
WriteOutcomes == {"ok", "failed"}

\* persistStore(store): PERSIST is dispatched and getStoredState settles (or the
\* timeout fires); REHYDRATE is dispatched, the new state is handed to the
\* persistoid, and PersistGate renders the screens.
persistStore(outcome) ==
    /\ phase = "loading"
    /\ LET inbound == rehydratePayload(outcome, storage)
       IN  /\ items' = autoMergeLevel1(inbound, items)
           /\ loadResult' = IF outcome # "resolved" THEN outcome
                            ELSE IF inbound.defined THEN "loaded" ELSE "absent"
    /\ phase' = "running"
    /\ keysToProcess' = {"favorites", "_persist"}
    /\ UNCHANGED <<storage, lastWrite, storedFrom>>
    /\ UNCHANGED storeVars

Rehydrate(outcome) ==
    /\ persistStore(outcome)
    /\ UNCHANGED screenVars

StoreDispatch(type, arg) ==
    /\ phase = "running"
    /\ dispatch(type, arg)
    /\ UNCHANGED <<phase, storage, lastWrite, loadResult, storedFrom>>
    /\ UNCHANGED storeVars
    /\ UNCHANGED screenVars

StoreAdd(book) == StoreDispatch("favorites/addFavorite", book)
StoreRemove(bookKey) == StoreDispatch("favorites/removeFavorite", bookKey)
StoreClear == StoreDispatch("favorites/clearFavorites", "")

\* createPersistoid.processNextKey: one queued key is staged per tick; when the
\* queue is empty the staged state is written with storage.setItem, which
\* resolves or rejects.  A key is queued again whenever its slice changes, so at
\* the write the staged favorites string is the current slice.
processNextKey(key, outcome) ==
    /\ phase = "running"
    /\ key \in keysToProcess
    /\ keysToProcess' = keysToProcess \ {key}
    /\ IF keysToProcess' # {}
       THEN UNCHANGED <<items, storage, lastWrite, storedFrom>>
       ELSE IF outcome = "ok"
            THEN /\ storage' = serialize(items)
                 /\ storedFrom' = items
                 /\ lastWrite' = "ok"
                 /\ UNCHANGED items
            ELSE /\ items' = onWriteFail(items, storage)
                 /\ lastWrite' = "failed"
                 /\ UNCHANGED <<storage, storedFrom>>
    /\ UNCHANGED <<phase, loadResult>>
    /\ UNCHANGED storeVars

ProcessNextKey(key, outcome) ==
    /\ processNextKey(key, outcome)
    /\ UNCHANGED screenVars

\* the process ends (in any phase) and the application is launched again: the
\* store is constructed from initialState, storage is what it was
configureStore ==
    /\ items' = initialState
    /\ phase' = "loading"
    /\ keysToProcess' = {}
    /\ lastWrite' = "none"
    /\ loadResult' = "pending"
    /\ UNCHANGED <<storage, storedFrom>>
    /\ UNCHANGED storeVars

Restart ==
    /\ configureStore
    /\ UNCHANGED screenVars

\* first launch of the application: nothing in storage
PersistInit ==
    /\ items = initialState
    /\ favorites = initialState
    /\ stale = 0
    /\ phase = "loading"
    /\ storage = Absent
    /\ keysToProcess = {}
    /\ lastWrite = "none"
    /\ loadResult = "pending"
    /\ last = NoCall
    /\ prev = NoCall
    /\ live = {}
    /\ storedFrom = << >>
    /\ ScreensInit

PersistNext ==
    \/ \E outcome \in LoadOutcomes : Rehydrate(outcome)
    \/ \E book \in PersistBooks : StoreAdd(book)
    \/ \E bookKey \in PersistKeys : StoreRemove(bookKey)
    \/ StoreClear
    \/ \E key \in {"favorites", "_persist"}, outcome \in WriteOutcomes :
          ProcessNextKey(key, outcome)
    \/ Restart

PersistSpec == PersistInit /\ [][PersistNext]_vars

----------------------------------------------------------------------------
(* AuthSpec: login, the auth check of the root layout, logout, and the       *)
(* persistence of the favorites across launches                              *)

AuthBooks == SampleBooks(NumAuthKeys) \cup {Revised}

SettleOutcomes == {"resolved", "rejected"}
LoginOutcomes == {"ok", "notOk", "networkError"}

persistVars == <<phase, storage, keysToProcess, lastWrite, loadResult, storedFrom>>

\* router.replace(target); the effect of RootLayoutNav depends on the segments
replace(target) ==
    /\ route' = target
    /\ authCheck' = IF route # target THEN "pending" ELSE authCheck

\* mutant: a user with a token is left on the login screen
AuthCheckLoginOnly(outcome) ==
    /\ phase = "running"
    /\ authCheck = "pending"
    /\ IF outcome = "rejected" THEN route' = route
       ELSE IF token = NoToken /\ route # LoginRoute THEN route' = LoginRoute
       ELSE route' = route
    /\ authCheck' = IF outcome = "rejected" THEN "failed"
                    ELSE IF route' # route THEN "pending" ELSE "done"
    /\ UNCHANGED <<token, user, loginPc, logoutPc, fieldError, logoutState>>
    /\ UNCHANGED <<items, persistVars, storeVars>>
    /\ UNCHANGED submitting
    /\ UNCHANGED outsideAuth

\* RootLayoutNav useEffect: read the token, redirect when the route group does
\* not match it; a rejected read is logged.  A redirect changes the segments,
\* so the effect runs again.
AuthCheck(outcome) ==
    /\ phase = "running"
    /\ authCheck = "pending"
    /\ IF outcome = "rejected" THEN route' = route
       ELSE IF token = NoToken /\ route # LoginRoute THEN route' = LoginRoute
       ELSE IF token # NoToken /\ route = LoginRoute THEN route' = TabsRoute
       ELSE route' = route
    /\ authCheck' = IF outcome = "rejected" THEN "failed"
                    ELSE IF route' # route THEN "pending" ELSE "done"
    /\ UNCHANGED <<token, user, loginPc, logoutPc, fieldError, logoutState>>
    /\ UNCHANGED <<items, persistVars, storeVars>>
    /\ UNCHANGED submitting
    /\ UNCHANGED outsideAuth

\* Login.handleSubmit up to the first await
SubmitLogin ==
    /\ phase = "running"
    /\ route = LoginRoute
    /\ loginPc = "idle"
    /\ loginPc' = "fetch"
    /\ submitting' = TRUE
    /\ fieldError' = ""
    /\ UNCHANGED <<token, user, route, logoutPc, authCheck, logoutState>>
    /\ UNCHANGED <<items, persistVars, storeVars>>
    /\ UNCHANGED outsideAuth

\* mutant: setSubmitting(false) follows the try statement, so the early
\* return of the non-2xx branch skips it
LoginResponseNoFinally(outcome) ==
    /\ loginPc = "fetch"
    /\ loginPc' = IF outcome = "ok" THEN "setItem" ELSE "idle"
    /\ submitting' = IF outcome = "networkError" THEN FALSE ELSE submitting
    /\ fieldError' = CASE outcome = "ok" -> fieldError
                        [] outcome = "notOk" -> "Invalid credentials"
                        [] OTHER -> "Network error"
    /\ UNCHANGED <<token, user, route, logoutPc, authCheck, logoutState>>
    /\ UNCHANGED <<items, persistVars, storeVars>>
    /\ UNCHANGED outsideAuth

\* Login.handleSubmit: the POST settles; a response that is not ok and a
\* rejected fetch end the handler through `finally`
LoginResponse(outcome) ==
    /\ loginPc = "fetch"
    /\ loginPc' = IF outcome = "ok" THEN "setItem" ELSE "idle"
    /\ submitting' = IF outcome = "ok" THEN submitting ELSE FALSE
    /\ fieldError' = CASE outcome = "ok" -> fieldError
                        [] outcome = "notOk" -> "Invalid credentials"
                        [] OTHER -> "Network error"
    /\ UNCHANGED <<token, user, route, logoutPc, authCheck, logoutState>>
    /\ UNCHANGED <<items, persistVars, storeVars>>
    /\ UNCHANGED outsideAuth

\* Login.handleSubmit: AsyncStorage.setItem(TOKEN_KEY, json.token) settles; then
\* dispatch(setUser(...)) and router.replace('/').  The user slice is not
\* whitelisted, so nothing is queued for writing.
LoginSetItem(outcome) ==
    /\ loginPc = "setItem"
    /\ loginPc' = "idle"
    /\ submitting' = FALSE
    /\ IF outcome = "resolved"
       THEN /\ token' = Token
            /\ user' = setUser(user, LoggedUser)
            /\ replace(TabsRoute)
            /\ logoutState' = "none"
            /\ UNCHANGED fieldError
       ELSE /\ fieldError' = "Network error"
            /\ UNCHANGED <<token, user, route, authCheck, logoutState>>
    /\ UNCHANGED logoutPc
    /\ UNCHANGED <<items, persistVars, storeVars>>
    /\ UNCHANGED outsideAuth

\* Profile.handleLogout: the confirmation alert is shown
PressLogout ==
    /\ phase = "running"
    /\ route = TabsRoute
    /\ logoutPc = "idle"
    /\ logoutPc' = "alert"
    /\ UNCHANGED <<token, user, route, loginPc, fieldError, authCheck, logoutState>>
    /\ UNCHANGED <<items, persistVars, storeVars>>
    /\ UNCHANGED submitting
    /\ UNCHANGED outsideAuth

\* the alert is answered: Cancel closes it, Logout starts removeItem
AnswerAlert(button) ==
    /\ logoutPc = "alert"
    /\ logoutPc' = IF button = "Logout" THEN "removeItem" ELSE "idle"
    /\ UNCHANGED <<token, user, route, loginPc, fieldError, authCheck, logoutState>>
    /\ UNCHANGED <<items, persistVars, storeVars>>
    /\ UNCHANGED submitting
    /\ UNCHANGED outsideAuth

\* Logout onPress after the await: removeItem resolved, so clearUser and
\* clearFavorites are dispatched and the router goes to the login screen; or it
\* rejected, and only the error alert is shown
LogoutRemoveItem(outcome) ==
    /\ logoutPc = "removeItem"
    /\ logoutPc' = "idle"
    /\ IF outcome = "resolved"
       THEN /\ token' = NoToken
            /\ user' = clearUser(user)
            /\ dispatch("favorites/clearFavorites", "")
            /\ replace(LoginRoute)
            /\ logoutState' = "cleared"
       ELSE UNCHANGED <<token, user, items, keysToProcess, route, authCheck,
                        logoutState>>
    /\ UNCHANGED <<loginPc, fieldError>>
    /\ UNCHANGED <<phase, storage, lastWrite, loadResult, storedFrom, storeVars>>
    /\ UNCHANGED submitting
    /\ UNCHANGED outsideAuth

\* a tab screen dispatches addFavorite
AuthAdd(book) ==
    /\ phase = "running"
    /\ route = TabsRoute
    /\ dispatch("favorites/addFavorite", book)
    /\ logoutState' = "none"
    /\ UNCHANGED <<token, user, route, loginPc, logoutPc, fieldError, authCheck>>
    /\ UNCHANGED <<phase, storage, lastWrite, loadResult, storedFrom, storeVars>>
    /\ UNCHANGED submitting
    /\ UNCHANGED outsideAuth

AuthRehydrate(outcome) ==
    /\ persistStore(outcome)
    /\ UNCHANGED authVars
    /\ UNCHANGED outsideAuth

\* the write that follows a logout in the same launch stores the cleared state
AuthProcessNextKey(key, outcome) ==
    /\ processNextKey(key, outcome)
    /\ logoutState' = IF logoutState = "cleared" /\ lastWrite' = "ok"
                                                 /\ keysToProcess' = {}
                       THEN "persisted" ELSE logoutState
    /\ UNCHANGED <<token, user, route, loginPc, logoutPc, fieldError, authCheck>>
    /\ UNCHANGED submitting
    /\ UNCHANGED outsideAuth

\* the application opens on "/", or on the login screen through a link
LaunchRoutes == {TabsRoute, LoginRoute}

\* the process ends and the application is launched again: the token entry stays,
\* the store, the router and the pending handlers are new
AuthRestart ==
    /\ configureStore
    /\ user' = userInitialState
    /\ route' \in LaunchRoutes
    /\ loginPc' = "idle"
    /\ logoutPc' = "idle"
    /\ fieldError' = ""
    /\ submitting' = FALSE
    /\ authCheck' = "pending"
    /\ logoutState' = IF logoutState = "cleared" THEN "unwritten" ELSE logoutState
    /\ UNCHANGED token
    /\ UNCHANGED outsideAuth

AuthNext ==
    \/ \E outcome \in LoadOutcomes : AuthRehydrate(outcome)
    \/ \E outcome \in SettleOutcomes : AuthCheck(outcome)
    \/ SubmitLogin
    \/ \E outcome \in LoginOutcomes : LoginResponse(outcome)
    \/ \E outcome \in SettleOutcomes : LoginSetItem(outcome)
    \/ PressLogout
    \/ \E button \in {"Cancel", "Logout"} : AnswerAlert(button)
    \/ \E outcome \in SettleOutcomes : LogoutRemoveItem(outcome)
    \/ \E book \in AuthBooks : AuthAdd(book)
    \/ \E key \in {"favorites", "_persist"}, outcome \in WriteOutcomes :
          AuthProcessNextKey(key, outcome)
    \/ AuthRestart

AuthSpec == PersistInit /\ [][AuthNext]_vars

----------------------------------------------------------------------------
(* Claims about the favorites store, checked under Spec *)

\* number of entries stored under a key
Entries(its, key) == Cardinality({ i \in 1..Len(its) : its[i].key = key })

\* the call `c` reached the addFavorite reducer
ReducerAdd(c) == c.op = "addFavorite"
\* the call `c` went through the hook's addToFavorites on a current snapshot
HookAdd(c) == c.op = "addToFavorites" /\ c.fresh
AddCall(c) == ReducerAdd(c) \/ HookAdd(c)

\* C1: after any sequence of addFavorite, removeFavorite and clearFavorites from
\* the empty collection, state.items holds at most one entry per key.
C1_UniqueKeys ==
    \A i, j \in 1..Len(items) : items[i].key = items[j].key => i = j

\* C1 witness: addFavorite was dispatched for a key that was already stored, with
\* a record that differs from the stored one.
C1_Witness ==
    /\ last.op = "addFavorite"
    /\ \E i \in 1..Len(last.pre) :
          last.pre[i].key = last.key /\ last.pre[i] # last.book
    /\ Len(items) >= 2

\* C2: add on a key that is already stored is a no-op; after two add calls with
\* the same key (the second possibly with other content) there is exactly one
\* entry for the key, and when the first call inserted it, it is the first
\* call's record.
C2_AddExistingIsNoOp ==
    /\ (AddCall(last) /\ find(last.pre, last.key)) => items = last.pre
    /\ (AddCall(last) /\ AddCall(prev)) =>
          /\ Entries(items, last.key) = 1
          /\ items = last.pre
          /\ ~find(prev.pre, prev.key) =>
                \E i \in 1..Len(items) : items[i] = prev.book

\* C2 witness: two addFavorite calls on one key with different records, the
\* first one inserting.
C2_Witness ==
    /\ ReducerAdd(last) /\ ReducerAdd(prev)
    /\ last.book # prev.book
    /\ ~find(prev.pre, prev.key)
    /\ prev.pre # << >>

\* C3: removing a key that is not stored leaves the collection as it was: same
\* size, same entries, same order.
C3_RemoveAbsentUnchanged ==
    (last.op = "removeFavorite" /\ ~find(last.pre, last.key)) =>
        /\ Len(items) = Len(last.pre)
        /\ items = last.pre

\* C3 witness: removeFavorite was called for an absent key on a collection of
\* two or more entries.
C3_Witness ==
    /\ last.op = "removeFavorite"
    /\ ~find(last.pre, last.key)
    /\ Len(last.pre) >= 2

C5_CountIsLiveKeys ==
    /\ Len(items) = Cardinality(live)
    /\ favorites = items => favoritesCount = Cardinality(live)
    /\ \A key \in Keys : Entries(items, key) <= 1

\* C5 witness: after a removal and a repeated add of a stored key, the rendered
\* count is 2.
C5_Witness ==
    /\ ReducerAdd(last) /\ find(last.pre, last.key)
    /\ favorites = items
    /\ favoritesCount = 2
    /\ Cardinality(live) = 2

\* position of the entry stored under `key`
Pos(its, key) == CHOOSE p \in 1..Len(its) : its[p].key = key

\* `post` is `pre` without the entry of `key`, the others in the same order
DeletedInOrder(pre, post, key) ==
    /\ KeySet(post) = KeySet(pre) \ {key}
    /\ Len(post) = Cardinality(KeySet(post))
    /\ \A i \in 1..Len(post) : post[i] = pre[Pos(pre, post[i].key)]
    /\ \A i, j \in 1..Len(post) :
          i < j => Pos(pre, post[i].key) < Pos(pre, post[j].key)

\* C6: insertion order is kept: adding a new key appends its record at the end,
\* and removing a key deletes that entry only, the rest keeping their order.
C6_InsertionOrder ==
    /\ (AddCall(last) /\ ~find(last.pre, last.key)) =>
          items = Append(last.pre, last.book)
    /\ last.op = "removeFavorite" => DeletedInOrder(last.pre, items, last.key)
    /\ (last.op = "toggleFavorite" /\ last.fresh) =>
          IF find(last.pre, last.key)
          THEN DeletedInOrder(last.pre, items, last.key)
          ELSE items = Append(last.pre, last.book)

\* C6 witness: the middle entry of three was removed and the two others are
\* left in their order.
C6_Witness ==
    /\ last.op = "removeFavorite"
    /\ Len(last.pre) = 3
    /\ last.key = last.pre[2].key
    /\ items = <<last.pre[1], last.pre[3]>>

\* C27 as stated: two toggleFavorite calls on the same book made on the
\* closures of one render, so that both read the same snapshot, leave the
\* collection as it was before the first call.
C27_ToggleTwiceOnOneRender ==
    (last.op = "toggleFavorite" /\ prev.op = "toggleFavorite" /\ stale >= 2) =>
        items = prev.pre

----------------------------------------------------------------------------
(* Claims about persistence, checked under PersistSpec *)

\* the ordered sequence of keys of a collection
KeySeq(its) == [i \in 1..Len(its) |-> its[i].key]

\* the step in which rehydration completes with the given results
Rehydrated(results) ==
    phase = "loading" /\ phase' = "running" /\ loadResult' \in results

\* the step in which storage.setItem rejects
WriteFails ==
    /\ phase = "running" /\ phase' = "running"
    /\ keysToProcess # {} /\ keysToProcess' = {}
    /\ lastWrite' = "failed"

\* C7: round trip: a collection that was persisted and is reloaded from storage
\* at process start comes back with the identical ordered sequence of keys.
C7_RoundTrip ==
    [][ Rehydrated({"loaded"}) => KeySeq(items') = KeySeq(storedFrom) ]_vars

\* C7 witness: a collection of three entries, one of them with a cover_i, was
\* written, the process restarted, and the collection was reloaded.
C7_Witness ==
    /\ phase = "running" /\ loadResult = "loaded"
    /\ lastWrite = "none"
    /\ Len(storedFrom) = 3
    /\ \E i \in 1..3 : storedFrom[i].cover_i # Undefined
    /\ KeySeq(items) = KeySeq(storedFrom)

\* C8: every mutation queues a write of the whole collection: once nothing is
\* queued and the latest write succeeded, the storage entry is the one a restart
\* reloads the current in-memory collection from.
C8_PersistedAfterMutation ==
    (phase = "running" /\ keysToProcess = {} /\ lastWrite = "ok") =>
        /\ storage # Absent
        /\ getStoredState(storage).defined
        /\ getStoredState(storage).items = items

\* C8 witness: in a session that started from a reloaded collection, the
\* mutations made since were written and storage holds the current two entries.
C8_Witness ==
    /\ phase = "running" /\ keysToProcess = {} /\ lastWrite = "ok"
    /\ Len(items) = 2
    /\ loadResult = "loaded"
    /\ getStoredState(storage).items = items

\* C9: a storage write that fails rolls nothing back and stops nothing: the
\* in-memory collection, and so every membership answer, is as the mutations
\* left it, and the session goes on.
C9_WriteFailureKeepsMemory ==
    [][ WriteFails =>
          /\ items' = items
          /\ \A key \in PersistKeys : isFavorite(items', key) = find(items, key) ]_vars

\* C9 witness: the latest write failed; the in-memory collection holds an entry
\* that storage does not.
C9_Witness ==
    /\ phase = "running" /\ lastWrite = "failed" /\ keysToProcess = {}
    /\ storage # Absent
    /\ \E key \in PersistKeys :
          isFavorite(items, key) /\ ~find(getStoredState(storage).items, key)

\* C10: at process start, when the storage entry is absent or the load fails
\* (rejected read or timeout), the collection is empty and the screens are
\* rendered as usual.
C10_FailedLoadIsEmpty ==
    [][ (phase = "loading" /\ loadResult' \in {"absent", "rejected", "timeout"}) =>
          /\ items' = << >>
          /\ phase' = "running" ]_vars

\* C10 witness: the load failed although storage holds a non-empty collection;
\* the session runs with the empty collection.
C10_Witness ==
    /\ phase = "running"
    /\ loadResult \in {"rejected", "timeout"}
    /\ storage # Absent /\ storedFrom # << >>
    /\ items = << >>
    /\ lastWrite = "none"

----------------------------------------------------------------------------
(* SearchSpec: the three search entry points and the settlement of their     *)
(* requests, in any order                                                    *)

coreVars == <<items, persistVars, storeVars>>

outsideSearch == <<coreVars, authVars, detailsVars, utilVars,
    serialVars,
    homeVars>>

\* fetch(url) by `caller`: the request is in flight until it settles.  The
\* hook, the search screen and the service function share no state, so one
\* run sends the requests of one of them.
request(caller, url) ==
    /\ sent < MaxRequests
    /\ \A other \in DOMAIN latest \ {caller} : latest[other] = 0
    /\ inflight' = inflight \cup {[id |-> sent + 1, caller |-> caller, url |-> url]}
    /\ sent' = sent + 1
    /\ latest' = [latest EXCEPT ![caller] = sent + 1]

called(caller, query) ==
    event' = [kind |-> "call", caller |-> caller, query |-> query, reply |-> NoReply]

settled(caller, reply) ==
    event' = [kind |-> "settle", caller |-> caller, query |-> << >>, reply |-> reply]

\* useFetchBooks.fetchBooks up to the await
fetchBooks(query, limit) ==
    IF trim(query) = << >>
    THEN /\ hook' = [hook EXCEPT !.error = "Search query cannot be empty"]
         /\ UNCHANGED <<inflight, sent, latest>>
    ELSE /\ hook' = [hook EXCEPT !.loading = TRUE, !.error = Null,
                                 !.lastQuery = query, !.lastLimit = limit]
         /\ request("hook", searchUrl(query, limit))

FetchBooks(query, limit) ==
    /\ fetchBooks(query, limit)
    /\ called("hook", query)
    /\ UNCHANGED <<screen, api>>
    /\ UNCHANGED closure
    /\ UNCHANGED outsideSearch

\* useFetchBooks.refresh: the callback of the last render, which holds the
\* lastQuery and lastLimit of that render
Refresh ==
    /\ IF closure.lastQuery # << >>
       THEN fetchBooks(closure.lastQuery, closure.lastLimit)
       ELSE UNCHANGED <<hook, inflight, sent, latest>>
    /\ event' = [NoEvent EXCEPT !.kind = "refresh", !.caller = "hook",
                                !.query = closure.lastQuery]
    /\ UNCHANGED <<screen, api, closure>>
    /\ UNCHANGED outsideSearch

\* the component using the hook renders again: useCallback makes a new refresh
\* because lastQuery or lastLimit changed
HookRender ==
    /\ closure # [lastQuery |-> hook.lastQuery, lastLimit |-> hook.lastLimit]
    /\ closure' = [lastQuery |-> hook.lastQuery, lastLimit |-> hook.lastLimit]
    /\ event' = [NoEvent EXCEPT !.kind = "render", !.caller = "hook"]
    /\ UNCHANGED <<hook, screen, api, inflight, sent, latest>>
    /\ UNCHANGED outsideSearch

\* useFetchBooks.clear
Clear ==
    /\ hook' = [hook EXCEPT !.books = << >>, !.error = Null, !.lastQuery = << >>]
    /\ event' = [NoEvent EXCEPT !.kind = "clear", !.caller = "hook"]
    /\ UNCHANGED <<screen, api, inflight, sent, latest>>
    /\ UNCHANGED closure
    /\ UNCHANGED outsideSearch

\* useFetchBooks.fetchBooks after the await: try, catch and finally
FetchBooksSettles(req, reply) ==
    /\ req \in inflight
    /\ req.caller = "hook"
    /\ inflight' = inflight \ {req}
    /\ hook' = IF ok(reply)
               THEN [hook EXCEPT !.books = toBooks(docsOf(reply)),
                                 !.loading = FALSE]
               ELSE [hook EXCEPT !.error = hookError(reply), !.books = << >>,
                                 !.loading = FALSE]
    /\ settled("hook", reply)
    /\ UNCHANGED <<screen, api, sent, latest>>
    /\ UNCHANGED closure
    /\ UNCHANGED outsideSearch

\* SearchScreen.fetchBooks up to the await
ScreenFetchBooks(query, isRefresh) ==
    /\ IF trim(query) = << >>
       THEN UNCHANGED <<screen, inflight, sent, latest>>
       ELSE /\ screen' = IF isRefresh
                         THEN [screen EXCEPT !.refreshing = TRUE, !.error = Null]
                         ELSE [screen EXCEPT !.loading = TRUE, !.error = Null]
            /\ request("screen", searchUrl(query, DefaultLimit))
    /\ called("screen", query)
    /\ UNCHANGED <<hook, api>>
    /\ UNCHANGED closure
    /\ UNCHANGED outsideSearch

\* SearchScreen.fetchBooks after the await: try, catch and finally
ScreenFetchBooksSettles(req, reply) ==
    /\ req \in inflight
    /\ req.caller = "screen"
    /\ inflight' = inflight \ {req}
    /\ screen' = IF ok(reply)
                 THEN [screen EXCEPT !.books = toBooks(docsOf(reply)),
                                     !.loading = FALSE, !.refreshing = FALSE]
                 ELSE [screen EXCEPT !.error = hookError(reply),
                                     !.loading = FALSE, !.refreshing = FALSE]
    /\ settled("screen", reply)
    /\ UNCHANGED <<hook, api, sent, latest>>
    /\ UNCHANGED closure
    /\ UNCHANGED outsideSearch

\* searchBooks({query, limit}) up to the await; limit 0 stands for no limit given
SearchBooks(query, limit) ==
    /\ request("api", searchBooksUrl(query, limit))
    /\ api' = [state |-> "pending", value |-> << >>, error |-> Null]
    /\ called("api", query)
    /\ UNCHANGED <<hook, screen>>
    /\ UNCHANGED closure
    /\ UNCHANGED outsideSearch

\* searchBooks after the await: it returns data.docs || [] or rethrows
SearchBooksSettles(req, reply) ==
    /\ req \in inflight
    /\ req.caller = "api"
    /\ inflight' = inflight \ {req}
    /\ api' = IF ok(reply)
              THEN [state |-> "fulfilled", value |-> docsOf(reply), error |-> Null]
              ELSE [state |-> "rejected", value |-> << >>,
                    error |-> searchBooksError(reply)]
    /\ settled("api", reply)
    /\ UNCHANGED <<hook, screen, sent, latest>>
    /\ UNCHANGED closure
    /\ UNCHANGED outsideSearch

SearchNext ==
    \/ \E query \in Queries, limit \in Limits : FetchBooks(query, limit)
    \/ Refresh
    \/ HookRender
    \/ Clear
    \/ \E req \in inflight, reply \in Replies : FetchBooksSettles(req, reply)
    \/ \E query \in Queries, isRefresh \in BOOLEAN : ScreenFetchBooks(query, isRefresh)
    \/ \E req \in inflight, reply \in Replies : ScreenFetchBooksSettles(req, reply)
    \/ \E query \in Queries, limit \in {0, DefaultLimit} : SearchBooks(query, limit)
    \/ \E req \in inflight, reply \in Replies : SearchBooksSettles(req, reply)

SearchSpec == Init /\ [][SearchNext]_vars

----------------------------------------------------------------------------
(* DetailsSpec: the Details screen fetches a work, its authors and its       *)
(* editions; the service functions fetch one record each                     *)

outsideDetails == <<coreVars, authVars, searchVars, utilVars,
    serialVars,
    homeVars>>

workUrl(id) == "https://openlibrary.org/works/" \o id \o ".json"

authorUrl(key) == "https://openlibrary.org" \o key \o ".json"

editionsUrl(id) == "https://openlibrary.org/works/" \o id \o "/editions.json?limit=10"

\* the message of the error the outer catch block receives
detailsError(answer) ==
    IF answer.kind = "rejected" THEN "Network request failed"
    ELSE "HTTP error! status: " \o ToString(answer.status)

\* mutant: the names are collected in the order in which the lookups settled
promiseAllByCompletion(calls) ==
    [j \in 1..Len(calls) |->
        (CHOOSE c \in {calls[k] : k \in 1..Len(calls)} : c.at = j).name]

\* Promise.all(authorPromises): the values in the order of the promises
promiseAll(calls) == [j \in 1..Len(calls) |-> calls[j].name]

\* the Details screen is opened for a work: useEffect runs fetchBookDetails up
\* to the first await
FetchBookDetails(id) ==
    /\ detailsPc = "idle"
    /\ workId' = id
    /\ IF id = ""
       THEN /\ details' = [details EXCEPT !.error = "No book ID provided",
                                          !.loading = FALSE]
            /\ detailsPc' = "done"
            /\ UNCHANGED requested
       ELSE /\ details' = [details EXCEPT !.loading = TRUE, !.error = Null]
            /\ requested' = requested \cup {workUrl(id)}
            /\ detailsPc' = "work"
    /\ UNCHANGED <<data, authorCalls, workReply, editionsReply, apiCall>>
    /\ UNCHANGED outsideDetails

\* the work request settles: on failure catch and finally run; otherwise the
\* author lookups are started together, or the editions request when the work
\* has no authors
WorkSettles(answer, refs, key) ==
    /\ detailsPc = "work"
    /\ workReply' = answer
    /\ IF ~answerOk(answer)
       THEN /\ details' = [details EXCEPT !.error = detailsError(answer),
                                          !.loading = FALSE]
            /\ detailsPc' = "done"
            /\ UNCHANGED <<data, authorCalls, requested>>
       ELSE /\ data' = [Work(workId, refs) EXCEPT !.key = key]
            /\ UNCHANGED details
            /\ IF refs # << >>
               THEN /\ authorCalls' = [i \in 1..Len(refs) |->
                                         [state |-> "pending", answer |-> NoAnswer,
                                          name |-> "", at |-> 0]]
                    /\ requested' = requested
                          \cup {authorUrl(refs[i].author.key) : i \in 1..Len(refs)}
                    /\ detailsPc' = "authors"
               ELSE /\ requested' = requested \cup {editionsUrl(workId)}
                    /\ detailsPc' = "editions"
                    /\ UNCHANGED authorCalls
    /\ UNCHANGED <<workId, editionsReply, apiCall>>
    /\ UNCHANGED outsideDetails

\* one author lookup settles; when it is the last one Promise.all resolves,
\* data.author_name is assigned and the editions request is sent
AuthorSettles(i, answer) ==
    /\ detailsPc = "authors"
    /\ i \in 1..Len(authorCalls)
    /\ authorCalls[i].state = "pending"
    /\ LET before == Cardinality({j \in 1..Len(authorCalls) :
                                    authorCalls[j].state = "settled"})
           calls == [authorCalls EXCEPT ![i] =
                        [state |-> "settled", answer |-> answer,
                         name |-> authorLookup(answer, data.authors[i].author.key),
                         at |-> before + 1]]
       IN  /\ authorCalls' = calls
           /\ IF \A j \in 1..Len(calls) : calls[j].state = "settled"
              THEN /\ data' = [data EXCEPT !.author_name = promiseAll(calls)]
                   /\ requested' = requested \cup {editionsUrl(workId)}
                   /\ detailsPc' = "editions"
              ELSE UNCHANGED <<data, requested, detailsPc>>
    /\ UNCHANGED <<details, workId, workReply, editionsReply, apiCall>>
    /\ UNCHANGED outsideDetails

\* the editions request settles: fetch or json() throwing is caught and
\* logged; then the mock rating is set, setBookDetails(data), and finally
\* setLoading(false)
EditionsSettle(edition, mock) ==
    /\ detailsPc = "editions"
    /\ editionsReply' = edition
    /\ LET thrown == edition.answer.kind = "rejected" \/ ~edition.answer.json
       IN  details' = [details EXCEPT
               !.pageCount = IF thrown THEN @ ELSE pagesAfter(edition.entries, @),
               !.language = IF thrown THEN @ ELSE languageAfter(edition.entries, @),
               !.rating = mock.rating,
               !.reviewCount = mock.reviewCount,
               !.bookDetails = <<data>>,
               !.loading = FALSE]
    /\ detailsPc' = "done"
    /\ UNCHANGED <<workId, data, authorCalls, requested, workReply, apiCall>>
    /\ UNCHANGED outsideDetails

\* the screen is closed; the next one opened is a new component
CloseDetails ==
    /\ detailsPc = "done"
    /\ details' = detailsInitialState
    /\ detailsPc' = "idle"
    /\ workId' = ""
    /\ data' = NoData
    /\ authorCalls' = << >>
    /\ requested' = {}
    /\ workReply' = NoAnswer
    /\ editionsReply' = NoEditions
    /\ UNCHANGED apiCall
    /\ UNCHANGED outsideDetails

\* getBookDetails, getAuthorDetails or getBookEditions up to the await
ServiceCall(fn) ==
    /\ apiCall.state # "pending"
    /\ apiCall' = [fn |-> fn, state |-> "pending", error |-> Null]
    /\ UNCHANGED <<details, detailsPc, workId, data, authorCalls, requested,
                   workReply, editionsReply>>
    /\ UNCHANGED outsideDetails

\* the service function after the await: it returns the parsed body or rethrows
ServiceSettles(answer) ==
    /\ apiCall.state = "pending"
    /\ apiCall' = IF answerOk(answer)
                  THEN [apiCall EXCEPT !.state = "fulfilled"]
                  ELSE [apiCall EXCEPT !.state = "rejected",
                           !.error = IF answer.kind = "rejected"
                                     THEN "Network request failed"
                                     ELSE serviceError(apiCall.fn)]
    /\ UNCHANGED <<details, detailsPc, workId, data, authorCalls, requested,
                   workReply, editionsReply>>
    /\ UNCHANGED outsideDetails

DetailsNext ==
    \/ \E id \in WorkIds : FetchBookDetails(id)
    \/ \E answer \in Answers, refs \in AuthorRefLists(MaxAuthors) :
          WorkSettles(answer, refs, "/works/" \o workId)
    \/ \E i \in 1..MaxAuthors, answer \in Answers : AuthorSettles(i, answer)
    \/ \E edition \in Editions, mock \in MockRatings : EditionsSettle(edition, mock)
    \/ CloseDetails
    \/ \E fn \in ServiceFunctions : ServiceCall(fn)
    \/ \E answer \in Answers : ServiceSettles(answer)

DetailsSpec == Init /\ [][DetailsNext]_vars

----------------------------------------------------------------------------
(* HomeSpec: the "My books" list of the Home screen, which follows the      *)
(* favorites of the store through fetchFavoriteSubjects                     *)

HomeBooks == SampleBooks(NumHomeKeys)
HomeKeys == {WorkKey(i) : i \in 1..NumHomeKeys}

\* favorites.slice(0, 3)
firstThree(its) == SubSeq(its, 1, IF Len(its) < 3 THEN Len(its) ELSE 3)

\* fetchFavoriteSubjects on the collection `its` up to the await: nothing when
\* it is empty, else one work request per book of the slice
fetchFavoriteSubjects(its) ==
    IF Len(its) = 0 THEN UNCHANGED <<batches, started>>
    ELSE /\ started < MaxBatches
         /\ batches' = batches \cup {[id |-> started + 1, books |-> firstThree(its)]}
         /\ started' = started + 1

\* an action is dispatched on some screen; when the selector of Home returns a
\* new array its effect on [favorites] runs fetchFavoriteSubjects
FavoritesChange(type, payload) ==
    /\ phase = "running"
    /\ dispatch(type, payload)
    /\ IF replaced(items, type, payload)
       THEN fetchFavoriteSubjects(items')
       ELSE UNCHANGED <<batches, started>>
    /\ UNCHANGED shown
    /\ UNCHANGED <<favorites, stale, phase, storage, lastWrite, loadResult, last,
                   prev, live, storedFrom>>
    /\ UNCHANGED <<authVars, searchVars, detailsVars, utilVars, serialVars>>

\* the requests of one call have all settled, those of the books in `failing`
\* with a rejection or a response that is not ok: Promise.all resolves and
\* setFavoritesWithSubjects stores one entry per book of the slice
SubjectsSettle(batch, failing) ==
    /\ batch \in batches
    /\ shown' = [i \in 1..Len(batch.books) |->
                    [book |-> batch.books[i],
                     subject |-> IF i \in failing THEN Undefined ELSE "subjects"]]
    /\ batches' = batches \ {batch}
    /\ UNCHANGED started
    /\ UNCHANGED coreVars
    /\ UNCHANGED <<authVars, searchVars, detailsVars, utilVars, serialVars>>

HomeNext ==
    \/ \E book \in HomeBooks : FavoritesChange("favorites/addFavorite", book)
    \/ \E bookKey \in HomeKeys : FavoritesChange("favorites/removeFavorite", bookKey)
    \/ FavoritesChange("favorites/clearFavorites", "")
    \/ \E batch \in batches, failing \in SUBSET (1..3) :
          failing \subseteq 1..Len(batch.books) /\ SubjectsSettle(batch, failing)

HomeSpec == Init /\ [][HomeNext]_vars

----------------------------------------------------------------------------
(* ToggleSpec: the favorite button of the Details screen, on work records   *)
(* without authors                                                          *)

\* Details: favorites.some(fav => fav.key === `/works/${workId}`), on the
\* collection of the render that follows every dispatch
detailsIsFavorite == isFavorite(items, "/works/" \o workId)

\* handleFavoriteToggle: bookData of the loaded record
bookData(record) == [key |-> record.key, title |-> record.title, cover_i |-> Undefined]

\* Details.handleFavoriteToggle
HandleFavoriteToggle ==
    /\ phase = "running"
    /\ details.bookDetails # << >>
    /\ IF detailsIsFavorite
       THEN dispatch("favorites/removeFavorite", bookData(details.bookDetails[1]).key)
       ELSE dispatch("favorites/addFavorite", bookData(details.bookDetails[1]))
    /\ UNCHANGED <<favorites, stale, phase, storage, lastWrite, loadResult, last,
                   prev, live, storedFrom>>
    /\ UNCHANGED <<authVars, searchVars, detailsVars, utilVars, serialVars,
                   homeVars>>

ToggleNext ==
    \/ \E id \in WorkIds : FetchBookDetails(id)
    \/ \E answer \in Answers, key \in ResponseKeys(workId) :
          WorkSettles(answer, << >>, key)
    \/ \E edition \in Editions, mock \in MockRatings :
          EditionsSettle(edition, mock)
    \/ CloseDetails
    \/ HandleFavoriteToggle

ToggleSpec == Init /\ [][ToggleNext]_vars

----------------------------------------------------------------------------
(* UtilSpec: the utility functions applied to arguments drawn at the start *)

outsideUtil == <<coreVars, authVars, searchVars, detailsVars,
    serialVars,
    homeVars>>

\* getCoverImageUrl(coverArg) or getCoverImageUrl(coverArg, sizeArg)
GetCoverImageUrl ==
    /\ coverUrl' = getCoverImageUrl(coverArg, sizeArg)
    /\ UNCHANGED <<coverArg, sizeArg, descArg, formatted, inlined, cardVars>>
    /\ UNCHANGED outsideUtil

\* formatDescription(descArg)
FormatDescription ==
    /\ formatted' = formatDescription(descArg)
    /\ UNCHANGED <<coverArg, sizeArg, coverUrl, descArg, inlined, cardVars>>
    /\ UNCHANGED outsideUtil

\* the Details screen renders a record whose description is descArg
RenderDescription ==
    /\ inlined' = inlineDescription(descArg)
    /\ UNCHANGED <<coverArg, sizeArg, coverUrl, descArg, formatted, cardVars>>
    /\ UNCHANGED outsideUtil

\* BookCard renders: status = getBookStatus(book)
GetBookStatus ==
    /\ status' = getBookStatus(cardBook, clock)
    /\ UNCHANGED <<coverArg, sizeArg, coverUrl, descArg, formatted, inlined,
                   cardBook, clock>>
    /\ UNCHANGED outsideUtil

UtilSpecInit ==
    /\ StoreInit
    /\ AuthInit
    /\ SearchInit
    /\ DetailsInit
    /\ HomeInit
    /\ SerialInit
    /\ coverArg \in CoverIds
    /\ sizeArg \in SizeArgs
    /\ descArg \in Descriptions
    /\ coverUrl = Null
    /\ formatted = Null
    /\ inlined = Null
    /\ cardBook \in CardBooks
    /\ clock \in ClockYears
    /\ status = Null

UtilNext ==
    \/ GetCoverImageUrl
    \/ FormatDescription
    \/ RenderDescription
    \/ GetBookStatus

UtilSpec == UtilSpecInit /\ [][UtilNext]_vars

----------------------------------------------------------------------------
(* Claims checked under AuthSpec *)

\* the step in which a confirmed logout ends after its token removal succeeded
LogoutDone == logoutPc = "removeItem" /\ logoutState' = "cleared"

\* C11 as stated: after a confirmed logout whose token removal succeeded, the
\* token is removed, the user is null and the favorites are empty and persisted
\* as empty, so that (until the next login or add) no launch shows favorites
\* again.
C11_LogoutPersistedEmpty ==
    logoutState # "none" =>
        /\ token = NoToken
        /\ user = NoUser
        /\ (phase = "running" => items = << >>)

\* C11 amended: a confirmed logout whose token removal succeeded ends with the
\* token removed, the user null and the favorites empty whatever they held; once
\* the write queued by that logout has succeeded the stored collection is empty
\* and no later launch shows favorites again (until the next login or add).
C11_LogoutClears ==
    /\ [][LogoutDone => token' = NoToken /\ user' = NoUser /\ items' = << >>
                         /\ "favorites" \in keysToProcess']_vars
    /\ [](logoutState = "persisted" =>
            /\ token = NoToken
            /\ user = NoUser
            /\ getStoredState(storage).items = << >>
            /\ (phase = "running" => items = << >>))

\* a logout cleared stored favorites, its write succeeded, and the next launch
\* has rehydrated from storage
C11_Witness ==
    /\ logoutState = "persisted"
    /\ phase = "running"
    /\ loadResult = "loaded"
    /\ storage # Absent

\* the step in which the process is launched again
Relaunch == phase = "running" /\ phase' = "loading"

(* C23: once the auth check of the root layout has completed, a user without
   a stored token is on the login screen and a user with a stored token is
   not: the first was redirected to the login screen, the second to the app
   root.  A relaunch keeps the token entry, so a user who logged in is routed
   to the app after it. *)
C23_ProtectedRoutes ==
    /\ [][Relaunch => token' = token]_vars
    /\ [](authCheck = "done" =>
            /\ (token = NoToken => route = LoginRoute)
            /\ (token # NoToken => route = TabsRoute))

\* after a login and a relaunch (the user slice is new, the token is kept) the
\* check has completed and the app root is shown
C23_Witness ==
    /\ token = Token
    /\ user = userInitialState
    /\ loadResult # "absent"
    /\ authCheck = "done"
    /\ route = TabsRoute

\* the step in which a call of handleSubmit returns
SubmitFinishes == loginPc # "idle" /\ loginPc' = "idle" /\ ~Relaunch

\* the step in which it returns after a response that was not ok or a
\* rejected request
LoginFails == loginPc = "fetch" /\ SubmitFinishes

(* C24: a login that fails on a non-2xx response or on a network error leaves
   the stored token and the user of the store as they were, shows an error on
   the form and does not navigate; and whenever handleSubmit returns, after a
   success or a failure, the submitting flag is false. *)
C24_FailedLoginChangesNothing ==
    /\ [][LoginFails => /\ token' = token
                        /\ user' = user
                        /\ route' = route
                        /\ fieldError' # ""]_vars
    /\ [][SubmitFinishes => submitting' = FALSE]_vars

\* a login was refused: the form shows the error, nothing is stored, the
\* login screen is still shown and the form can be submitted again
C24_Witness ==
    /\ fieldError = "Invalid credentials"
    /\ loginPc = "idle"
    /\ ~submitting
    /\ token = NoToken
    /\ user = NoUser
    /\ route = LoginRoute

\* C30 as stated: whenever no login and no logout is in progress, the token
\* entry is present exactly when the user of the store is not null, also
\* after the process was relaunched.
C30_TokenIffUser ==
    (loginPc = "idle" /\ logoutPc = "idle") =>
        (token # NoToken <=> user # NoUser)

----------------------------------------------------------------------------
(* Claims checked under SearchSpec *)

Callers == {"hook", "screen", "api"}

\* the result list a caller holds on its screen
Held(caller) ==
    CASE caller = "hook" -> hook.books
      [] caller = "screen" -> screen.books
      [] OTHER -> << >>

\* the list a search hands back when it succeeds
Returned(caller) ==
    CASE caller = "hook" -> hook.books
      [] caller = "screen" -> screen.books
      [] OTHER -> api.value

\* the error a search ends with
Failure(caller) ==
    CASE caller = "hook" -> hook.error
      [] caller = "screen" -> screen.error
      [] OTHER -> api.error

\* C12 as stated: a search called with an empty or whitespace-only query fails
\* with a validation error, sends no request and leaves the held list as it was.
C12_BlankQueryRejected ==
    [][\A c \in Callers :
          (event'.kind = "call" /\ event'.caller = c /\ trim(event'.query) = << >>)
          => /\ sent' = sent
             /\ inflight' = inflight
             /\ Held(c)' = Held(c)
             /\ Failure(c)' # Null]_vars

\* C13: after a successful search the returned list has one record per item of
\* the response, in the order of the response, each with the item's key and title.
C13_OneRecordPerItemInOrder ==
    (event.kind = "settle" /\ ok(event.reply)) =>
        LET docs == event.reply.body.docs
            list == Returned(event.caller)
        IN  /\ Len(list) = Len(docs)
            /\ \A i \in 1..Len(docs) :
                   list[i].key = docs[i].key /\ list[i].title = docs[i].title

\* the hook has received two items that are not in title order
C13_Witness ==
    /\ event.kind = "settle"
    /\ event.caller = "hook"
    /\ ok(event.reply)
    /\ Len(event.reply.body.docs) = 2
    /\ event.reply.body.docs[1].title = "Beta"
    /\ event.reply.body.docs[2].title = "Alpha"

\* C14 as stated: a search that fails (rejected request or non-2xx response)
\* ends in an error that carries the HTTP status when there is one, sends no
\* further request, and the list held before is retained.
C14_FailedSearchKeepsList ==
    [][\A c \in Callers :
          (event'.kind = "settle" /\ event'.caller = c /\ ~ok(event'.reply))
          => /\ Failure(c)' # Null
             /\ (event'.reply.kind = "response" =>
                    Failure(c)' = "HTTP error! status: "
                                  \o ToString(event'.reply.status))
             /\ sent' = sent
             /\ Held(c)' = Held(c)]_vars

\* the requests sent by the step
Issued == inflight' \ inflight

\* C25 as stated: refresh() sends the search of the latest fetchBooks call that
\* passed validation, with its query and its limit, and sends nothing when
\* there is none; clear() empties the list, the error and the last query, so
\* that a refresh() that follows it sends nothing.
C25_RefreshRepeatsLatest ==
    /\ [][event'.kind = "refresh" =>
            IF hook.lastQuery = << >> THEN Issued = {}
            ELSE \E req \in Issued :
                    req.url = searchUrl(hook.lastQuery, hook.lastLimit)]_vars
    /\ [][event'.kind = "clear" =>
            hook'.books = << >> /\ hook'.error = Null
                                /\ hook'.lastQuery = << >>]_vars

\* a screen shows its loading or refreshing indicator
Loading(caller) ==
    IF caller = "hook" THEN hook.loading ELSE screen.loading \/ screen.refreshing

\* the requests settled by the step
Settling == inflight \ inflight'

\* C26 as stated: searches of one screen may overlap; a response to an earlier
\* search that arrives after the response to the latest search does not
\* replace the list, so once all have settled the list is that of the search
\* sent last; and a screen is not loading only when none of its requests is
\* in flight.
C26_LatestSearchWins ==
    /\ [][\A req \in Settling :
            (/\ req.caller \in {"hook", "screen"}
             /\ req.id < latest[req.caller]
             /\ \A other \in inflight : other.id # latest[req.caller])
            => Held(req.caller)' = Held(req.caller)]_vars
    /\ [](\A req \in inflight :
            req.caller \in {"hook", "screen"} => Loading(req.caller))

----------------------------------------------------------------------------
(* Claims checked under DetailsSpec *)

\* a request failed: it was rejected, or answered with a non-2xx status
Failed(answer) ==
    \/ answer.kind = "rejected"
    \/ answer.kind = "response" /\ answer.status \notin 200..299

Resolved(answer) == answer.kind = "response" /\ answer.status \in 200..299

\* fetchBookDetails has ended for a work whose primary request succeeded
Completed == detailsPc = "done" /\ Resolved(workReply)

\* C15 as stated: when the work request succeeded the operation completes
\* successfully whatever the author lookups did; the name of every author whose
\* lookup failed (rejected or non-2xx) is exactly "Unknown Author", and every
\* resolved author keeps the fetched name.
C15_FailedAuthorIsUnknown ==
    Completed =>
        /\ details.bookDetails # << >>
        /\ details.error = Null
        /\ \A i \in 1..Len(authorCalls) :
              LET name == details.bookDetails[1].author_name[i]
                  answer == authorCalls[i].answer
              IN  /\ Failed(answer) => name = "Unknown Author"
                  /\ Resolved(answer) =>
                        name = AuthorName(data.authors[i].author.key)

\* C16 as stated: when the editions request fails (rejected or non-2xx) the
\* details record is still produced with no error, and pageCount and language
\* have no value.
C16_EditionsFailureLeavesUnset ==
    (Completed /\ Failed(editionsReply.answer)) =>
        /\ details.bookDetails # << >>
        /\ details.error = Null
        /\ details.pageCount = Null
        /\ details.language = Null

\* C17: the details record is produced, and data.author_name assigned, only
\* after every author lookup has settled, whatever the order in which they
\* settle; author_name has one entry per author reference, the i-th being what
\* the lookup of the i-th reference settled with (the fetched name of that
\* author when it resolved).
C17_JoinAll ==
    (details.bookDetails # << >> \/ data.author_name # << >>
       \/ detailsPc \in {"editions", "done"}) =>
        /\ \A i \in 1..Len(authorCalls) : authorCalls[i].state = "settled"
        /\ Resolved(workReply) =>
              /\ Len(authorCalls) = Len(data.authors)
              /\ Len(data.author_name) = Len(data.authors)
              /\ \A i \in 1..Len(data.authors) :
                    /\ data.author_name[i] = authorCalls[i].name
                    /\ Resolved(authorCalls[i].answer) =>
                          data.author_name[i] = AuthorName(data.authors[i].author.key)
        /\ details.bookDetails # << >> => details.bookDetails[1] = data

\* the record was produced for two different authors whose lookups settled in
\* the reverse of the reference order, the first one with a swallowed rejection
C17_Witness ==
    /\ details.bookDetails # << >>
    /\ Len(authorCalls) = 2
    /\ data.authors[1] # data.authors[2]
    /\ authorCalls[1].at = 2
    /\ authorCalls[1].answer.kind = "rejected"
    /\ Resolved(authorCalls[2].answer)

\* C18: when the work request fails (rejected or non-2xx) no details record is
\* produced, the error state is set, loading has ended and the work URL is the
\* only one requested; getBookDetails rejects with an error.
C18_WorkFailurePropagates ==
    /\ (detailsPc = "done" /\ Failed(workReply)) =>
          /\ details.bookDetails = << >>
          /\ details.error # Null
          /\ details.loading = FALSE
          /\ requested = {workUrl(workId)}
          /\ authorCalls = << >>
    /\ (detailsPc = "work") => requested = {workUrl(workId)}
    /\ (apiCall.fn = "getBookDetails" /\ apiCall.state = "rejected") =>
          apiCall.error # Null

\* the work request was answered with a non-2xx status and the handler has ended
C18_Witness ==
    /\ detailsPc = "done"
    /\ workReply.kind = "response"
    /\ workReply.status = 404
    /\ details.error = "HTTP error! status: 404"

----------------------------------------------------------------------------
(* Claims checked under UtilSpec *)

\* C19: the URL returned for an absent or zero coverId is the placeholder URL,
\* and for every other coverId and every size S, M or L it is
\* <covers-base>/b/id/<coverId>-<size>.jpg, a function of the arguments alone;
\* no request is sent.
C19_CoverUrlTemplate ==
    /\ coverUrl # Null =>
          IF ~coverArg.given \/ coverArg.id = 0
          THEN coverUrl = "https://via.placeholder.com/120x180"
          ELSE \A size \in {"S", "M", "L"} :
                  sizeArg = size =>
                     coverUrl = "https://covers.openlibrary.org/b/id/"
                                \o ToString(coverArg.id) \o "-" \o size \o ".jpg"
    /\ sent = 0 /\ inflight = {} /\ requested = {}

\* the large cover of a non-zero cover id has been asked for
C19_Witness ==
    /\ coverArg = [given |-> TRUE, id |-> 2]
    /\ sizeArg = "L"
    /\ coverUrl = "https://covers.openlibrary.org/b/id/2-L.jpg"

\* C20: for a non-empty text t, formatDescription({value: t}) and
\* formatDescription(t) are t; formatDescription(undefined) and
\* formatDescription({value: ''}) are the fixed sentinel.  The Details screen
\* normalizes the same inputs the same way, with a sentinel of its own.
C20_DescriptionNormalized ==
    /\ formatted # Null =>
          /\ (descArg.type \in {"string", "object"} /\ descArg.value # "")
                => formatted = descArg.value
          /\ (descArg.type = "undefined"
                \/ (descArg.type = "object" /\ descArg.value = ""))
                => formatted = "No description available"
    /\ inlined # Null =>
          /\ (descArg.type \in {"string", "object"} /\ descArg.value # "")
                => inlined = descArg.value
          /\ (descArg.type = "undefined"
                \/ (descArg.type = "object" /\ descArg.value = ""))
                => inlined = "No description available."

\* a wrapper with an empty value has been normalized by both
C20_Witness ==
    /\ descArg = [type |-> "object", value |-> ""]
    /\ formatted = "No description available"
    /\ inlined = "No description available."

(* C21: the badge of a card is "Popular" when the edition count is over 50,
   otherwise "New" when the first publish year is at least the current year
   minus 2, otherwise "Trending"; an absent field satisfies neither rule, and
   the popularity rule is tried before the recency rule. *)
C21_StatusClassification ==
    status # Null =>
        LET e == cardBook.edition_count
            y == cardBook.first_publish_year
        IN  status = IF e.given /\ e.n > 50 THEN "Popular"
                     ELSE IF y.given /\ y.n >= clock - 2 THEN "New"
                     ELSE "Trending"

\* a book that is both popular and recent has been given the badge "Popular"
C21_Witness ==
    /\ status = "Popular"
    /\ cardBook.edition_count.n > 50
    /\ cardBook.first_publish_year.given
    /\ cardBook.first_publish_year.n >= clock - 2

----------------------------------------------------------------------------
(* Claims checked under SerialSpec *)

\* one action applied to a collection, as the favorites operations are stated
OneAtATime(its, action) ==
    CASE action.type = "favorites/addFavorite" ->
            IF \E i \in 1..Len(its) : its[i].key = action.key
            THEN its ELSE its \o <<action.book>>
      [] action.type = "favorites/removeFavorite" ->
            SelectSeq(its, LAMBDA b : b.key # action.key)
      [] action.type = "favorites/clearFavorites" -> << >>

\* the first n actions of the log applied one at a time, in dispatch order
RECURSIVE InOrder(_)
InOrder(n) == IF n = 0 THEN << >> ELSE OneAtATime(InOrder(n - 1), log[n])

(* C22: the actions dispatched in rapid succession are serialized: after every
   dispatch the collection is the result of applying the dispatched actions
   one at a time in dispatch order, starting from the empty collection. *)
C22_DispatchesSerialized == items = InOrder(Len(log))

\* an add, a remove of another key and a second add were dispatched in one burst
C22_Witness ==
    /\ Len(log) = 3
    /\ log[1].type = "favorites/addFavorite"
    /\ log[2].type = "favorites/removeFavorite"
    /\ log[3].type = "favorites/addFavorite"
    /\ log[2].key # log[1].key
    /\ Len(items) = 2

----------------------------------------------------------------------------
(* Claims checked under ToggleSpec *)

\* C28 as stated: while a work record is loaded on the Details screen, the
\* favorite indicator is on exactly when the collection holds an entry under
\* the key of the record, which is the entry the button adds or removes; so
\* every press that changes the collection flips the indicator.
C28_IndicatorMatchesToggle ==
    /\ [](details.bookDetails # << >> =>
            (detailsIsFavorite <=> find(items, details.bookDetails[1].key)))
    /\ [][(details.bookDetails # << >> /\ items' # items) =>
            detailsIsFavorite' # detailsIsFavorite]_vars

----------------------------------------------------------------------------
(* Claims checked under HomeSpec *)

\* the keys of the "My books" list, in the order shown
ShownKeys == [i \in 1..Len(shown) |-> shown[i].book.key]

\* the keys of the first three favorites, in collection order
FirstKeys == [i \in 1..Len(firstThree(items)) |-> items[i].key]

\* C29 as stated: once the subject fetches started by the changes of the
\* favorites have settled, the "My books" list shows the keys of the first
\* three favorites in collection order, and nothing when there are no
\* favorites; a book whose subject fetch failed is shown without subjects.
C29_MyBooksFollowStore ==
    /\ [](batches = {} => ShownKeys = FirstKeys)
    /\ [][\A batch \in batches \ batches' :
            /\ Len(shown') = Len(batch.books)
            /\ \A i \in 1..Len(shown') : shown'[i].book = batch.books[i]]_vars

====
